---- MODULE Spec2Model ----
(***************************************************************************)
(* Model of the tree-identifier Home page: the UI state owned by the Home  *)
(* component (image, analysis, loading, error), the handlers that change   *)
(* it (loadDefaultContent, handleImageUpload, handleAnalyze and their      *)
(* asynchronous continuations) and the pure formatter formatAnalysis.      *)
(*                                                                         *)
(* A JavaScript value of type string | null is a string here; Null stands *)
(* for null.                                                               *)
(***************************************************************************)
EXTENDS Integers, Sequences, FiniteSets, TLC

VARIABLES image, analysis, loading, error, mountPc, readers, calls, resolved, nFlows,
          nCalls, last, text, blocks, fmtPc

vars == <<image, analysis, loading, error, mountPc, readers, calls, resolved, nFlows,
          nCalls, last, text, blocks, fmtPc>>

ctlVars == <<image, analysis, loading, error, mountPc, readers, calls, resolved, nFlows,
             nCalls, last>>

fmtVars == <<text, blocks, fmtPc>>

\* ---------------------------------------------------------------- bounds

\* user flows (accepted file selections and Identify clicks) per run
MaxFlows == 2

\* length of the report texts given to formatAnalysis
MaxLen == 4

\* ------------------------------------------------------------- constants

Null == "null"

DEFAULT_IMAGE == "/default-tree.jfif"

DEFAULT_ANALYSIS ==
    "1. Species Identification:\n"
    \o "- Scientific name: Quercus rubra\n"
    \o "- Common name: Northern Red Oak\n"
    \o "- Family: Fagaceae\n"
    \o "- Classification: Deciduous hardwood\n"
    \o "\n"
    \o "2. Physical Characteristics:\n"
    \o "- Size: Large (60-75 feet tall, 45-foot spread)\n"
    \o "- Leaf Type: Alternate, simple, 7-9 lobed with bristle tips\n"
    \o "- Bark: Dark gray-brown, developing distinctive ridges and furrows\n"
    \o "- Distinctive Features: Acorns with shallow caps, red-brown fall foliage\n"
    \o "- Growth Pattern: Pyramidal when young, rounded crown at maturity\n"
    \o "\n"
    \o "3. Growth Requirements:\n"
    \o "- Light Needs: Full sun to partial shade\n"
    \o "- Soil Preference: Adaptable, prefers well-drained, slightly acidic soil\n"
    \o "- Moisture: Moderate, drought-tolerant once established\n"
    \o "- Temperature Hardiness: USDA zones 4-8\n"
    \o "- Growth Rate: Moderate to fast (1-2 feet per year)\n"
    \o "\n"
    \o "4. Ecological Information:\n"
    \o "- Lifespan: 200-400 years\n"
    \o "- Wildlife Value: Acorns provide food for wildlife, nesting habitat for birds\n"
    \o "- Native Range: Eastern and Central North America\n"
    \o "- Ecosystem Benefits: Carbon sequestration, erosion control, shade\n"
    \o "- Seasonal Changes: Brilliant red fall color, winter dormancy\n"
    \o "\n"
    \o "5. Additional Information:\n"
    \o "- Uses: Shade tree, timber, wildlife habitat\n"
    \o "- Disease Resistance: Moderate, susceptible to oak wilt\n"
    \o "- Cultural Significance: Symbol of strength and endurance\n"
    \o "- Interesting Facts: Can produce up to 1,000 acorns in a good year\n"
    \o "- Conservation Status: Least concern, widespread"

MAX_SIZE == 20 * 1024 * 1024

MsgLoadDefault == "Failed to load default image"

MsgWrongType == "Please upload a valid image file"

MsgTooLarge == "Image size should be less than 20MB"

MsgReadFailed == "Failed to read the image file. Please try again."

MsgAnalyzeFallback == "Failed to analyze image. Please try again."

\* ------------------------------------------------------- strings, files

\* String.prototype.substring for 1-based positions from..to, both included
Substring(s, from, to) == IF from > to THEN "" ELSE SubSeq(s, from, to)

\* String.prototype.startsWith
StartsWith(s, prefix) ==
    /\ Len(s) >= Len(prefix)
    /\ Substring(s, 1, Len(prefix)) = prefix

\* the check with the slash of the category forgotten
IsImageTypeNoSlash(type) == StartsWith(type, "image")

\* file.type.startsWith('image/')
IsImageType(type) == StartsWith(type, "image/")

\* the size check with the limit itself rejected
IsTooLargeAtLimit(size) == size >= MAX_SIZE

\* file.size > 20 * 1024 * 1024
IsTooLarge(size) == size > MAX_SIZE

\* btoa of the one-byte contents the model uses
Base64(bytes) ==
    CASE bytes = "A" -> "QQ=="
      [] bytes = "B" -> "Qg=="
      [] bytes = "D" -> "RA=="

\* FileReader.readAsDataURL: the result a successful read leaves in reader.result
ReadAsDataURL(blob) == "data:" \o blob.type \o ";base64," \o Base64(blob.bytes)

\* reader.result after the read: the data URL on load, null on error
ReaderResult(blob, ok) == IF ok THEN ReadAsDataURL(blob) ELSE Null

FileTypes == {"image/png", "text/plain", "image"}

FileSizes == {1, MAX_SIZE, MAX_SIZE + 1}

\* e.target.files?.[0] when a file was chosen; small files hold "A", the others "B"
Files ==
    { [type |-> t, size |-> z, bytes |-> IF z = 1 THEN "A" ELSE "B"] :
        t \in FileTypes, z \in FileSizes }

\* e.target.files?.[0] when the dialog was dismissed
NoFile == [type |-> "", size |-> 0, bytes |-> ""]

\* the blob of the bundled default image
DefaultBlob == [type |-> "image/jpeg", size |-> 1, bytes |-> "D"]

\* ------------------------------------------------------ Analysis Client

\* the text analyzeImage resolves with for an image
ReportFor(imageData) == "report for " \o imageData

\* what a failed analyzeImage call throws: an Error with a message, an Error
\* without one, or a value that is not an Error
Failures ==
    { [isError |-> TRUE, message |-> "The service is unavailable"],
      [isError |-> TRUE, message |-> ""],
      [isError |-> FALSE, message |-> Null] }

NoCall == [id |-> 0, imageData |-> Null]

NoFailure == [isError |-> FALSE, message |-> ""]

\* -------------------------------------------------------- state setters

\* the React state of Home plus the calls issued and the setter log of one handler
Cur ==
    [image |-> image, analysis |-> analysis, loading |-> loading, error |-> error,
     calls |-> calls, nCalls |-> nCalls, log |-> <<>>]

setImage(s, v) == [s EXCEPT !.image = v, !.log = Append(@, "setImage")]

setAnalysis(s, v) == [s EXCEPT !.analysis = v, !.log = Append(@, "setAnalysis")]

setLoading(s, v) == [s EXCEPT !.loading = v, !.log = Append(@, "setLoading")]

setError(s, v) == [s EXCEPT !.error = v, !.log = Append(@, "setError")]

\* analyzeImage(imageData, treePrompt): the call leaves and stays in flight
analyzeImage(s, imageData) ==
    [s EXCEPT !.nCalls = @ + 1,
              !.calls = @ \cup {[id |-> s.nCalls + 1, imageData |-> imageData]},
              !.log = Append(@, "analyzeImage")]

\* handleAnalyze up to its await
handleAnalyze(s, imageData) ==
    analyzeImage(setError(setLoading(s, TRUE), Null), imageData)

\* err instanceof Error ? err.message : fallback
ErrorMessage(err) == IF err.isError THEN err.message ELSE MsgAnalyzeFallback

\* the continuation with a guard that drops the response of a superseded call
handleAnalyzeResolvedIfCurrent(s, result) ==
    IF result = ReportFor(s.image) THEN setLoading(setAnalysis(s, result), FALSE) ELSE s

\* handleAnalyze after the await resolved: try body, then finally
handleAnalyzeResolved(s, result) == setLoading(setAnalysis(s, result), FALSE)

\* the continuation with the finally block left out
handleAnalyzeRejectedNoFinally(s, err) == setError(s, ErrorMessage(err))

\* handleAnalyze after the await rejected: catch, then finally
handleAnalyzeRejected(s, err) == setLoading(setError(s, ErrorMessage(err)), FALSE)

\* onloadend with the analysis started before the image is set
uploadOnLoadEndAnalyzeFirst(s, result) ==
    setError(setImage(handleAnalyze(s, result), result), Null)

\* reader.onloadend of handleImageUpload
uploadOnLoadEnd(s, result) == handleAnalyze(setError(setImage(s, result), Null), result)

\* reader.onerror of handleImageUpload
uploadOnError(s) == setError(s, MsgReadFailed)

\* the events a FileReader of handleImageUpload fires: load or error, then loadend
uploadReaderEvents(s, blob, ok) ==
    uploadOnLoadEnd(IF ok THEN s ELSE uploadOnError(s), ReaderResult(blob, ok))

\* reader.onloadend of loadDefaultContent
defaultOnLoadEnd(s, result) ==
    setLoading(setAnalysis(setImage(s, result), DEFAULT_ANALYSIS), FALSE)

\* reader.onerror of loadDefaultContent
defaultOnError(s) == setLoading(setError(s, MsgLoadDefault), FALSE)

\* the events the FileReader of loadDefaultContent fires: load or error, then loadend
defaultReaderEvents(s, blob, ok) ==
    defaultOnLoadEnd(IF ok THEN s ELSE defaultOnError(s), ReaderResult(blob, ok))

\* the catch block of loadDefaultContent
defaultCatch(s) == setLoading(setError(s, MsgLoadDefault), FALSE)

\* the branch handleImageUpload takes for e.target.files?.[0]
Validation(file) ==
    IF file = NoFile THEN "none"
    ELSE IF ~IsImageType(file.type) THEN "type"
    ELSE IF IsTooLarge(file.size) THEN "size"
    ELSE "ok"

\* whether handleImageUpload reaches reader.readAsDataURL(file)
startsReader(file) == Validation(file) = "ok"

\* handleImageUpload up to reader.readAsDataURL
handleImageUpload(s, file) ==
    CASE Validation(file) = "type" -> setError(s, MsgWrongType)
      [] Validation(file) = "size" -> setError(s, MsgTooLarge)
      [] OTHER -> s

\* commit of the batched state updates of one handler
Commit(s, op, file, call, failure) ==
    /\ image' = s.image
    /\ analysis' = s.analysis
    /\ loading' = s.loading
    /\ error' = s.error
    /\ calls' = s.calls
    /\ nCalls' = s.nCalls
    /\ last' = [op |-> op, file |-> file, call |-> call, failure |-> failure, log |-> s.log]

\* ------------------------------------------------------- formatAnalysis

\* the character of s at position i
CharAt(s, i) == IF i \in 1..Len(s) THEN SubSeq(s, i, i) ELSE ""

\* the characters of the class of line.replace's pattern: star, underscore, hash and
\* backquote; no TLA+ string holds a backquote, so the texts here have none
IsMarkdown(c) == c \in {"*", "_", "#"}

\* the characters of the class \s that the texts use
IsSpace(c) == c \in {" ", "\t", "\r"}

\* the characters of the class \d
IsDigit(c) == c \in {"0", "1", "2", "3", "4", "5", "6", "7", "8", "9"}

RECURSIVE Split(_, _)
\* String.prototype.split with a one-character separator
Split(s, sep) ==
    LET hits == {i \in 1..Len(s) : CharAt(s, i) = sep} IN
    IF hits = {} THEN <<s>>
    ELSE LET i == CHOOSE k \in hits : \A j \in hits : k <= j
         IN <<Substring(s, 1, i - 1)>> \o Split(Substring(s, i + 1, Len(s)), sep)

RECURSIVE Join(_, _)
\* Array.prototype.join
Join(parts, sep) ==
    IF parts = <<>> THEN ""
    ELSE IF Len(parts) = 1 THEN parts[1]
    ELSE parts[1] \o sep \o Join(Tail(parts), sep)

RECURSIVE StripMarkdown(_)
\* line.replace(pattern, '') with the g flag
StripMarkdown(s) ==
    IF s = "" THEN ""
    ELSE (IF IsMarkdown(CharAt(s, 1)) THEN "" ELSE CharAt(s, 1))
         \o StripMarkdown(Substring(s, 2, Len(s)))

RECURSIVE TrimStart(_)
TrimStart(s) ==
    IF s # "" /\ IsSpace(CharAt(s, 1)) THEN TrimStart(Substring(s, 2, Len(s))) ELSE s

RECURSIVE TrimEnd(_)
TrimEnd(s) ==
    IF s # "" /\ IsSpace(CharAt(s, Len(s))) THEN TrimEnd(Substring(s, 1, Len(s) - 1)) ELSE s

\* String.prototype.trim
Trim(s) == TrimEnd(TrimStart(s))

RECURSIVE DigitsAt(_, _)
\* the number of digits of s from position i on: the match of \d+
DigitsAt(s, i) ==
    IF i <= Len(s) /\ IsDigit(CharAt(s, i)) THEN 1 + DigitsAt(s, i + 1) ELSE 0

\* /^\d+\./.test(cleanLine)
IsHeading(cleanLine) ==
    LET n == DigitsAt(cleanLine, 1)
    IN n >= 1 /\ CharAt(cleanLine, n + 1) = "."

\* the replace without the \s* of its pattern
HeadingTextKeepSpace(cleanLine) ==
    Substring(cleanLine, DigitsAt(cleanLine, 1) + 2, Len(cleanLine))

\* cleanLine.replace(/^\d+\.\s*/, '')
HeadingText(cleanLine) ==
    TrimStart(Substring(cleanLine, DigitsAt(cleanLine, 1) + 2, Len(cleanLine)))

\* String.prototype.includes for one character
Includes(s, c) == \E i \in 1..Len(s) : CharAt(s, i) = c

\* line.replace(pattern, '').trim()
CleanLine(line) == Trim(StripMarkdown(line))

\* the element formatAnalysis maps one line to; null is <<>>
FormatLine(line) ==
    LET cleanLine == CleanLine(line) IN
    IF cleanLine = "" THEN <<>>
    ELSE IF IsHeading(cleanLine)
        THEN <<[kind |-> "Heading", text |-> HeadingText(cleanLine)]>>
    ELSE IF StartsWith(cleanLine, "-") /\ Includes(cleanLine, ":")
        THEN LET parts == Split(Substring(cleanLine, 2, Len(cleanLine)), ":")
                 value == Trim(Join(Tail(parts), ":"))
             IN <<[kind |-> "LabeledField", label |-> Trim(parts[1]), value |-> value]>>
    ELSE IF StartsWith(cleanLine, "-")
        THEN <<[kind |-> "BulletItem", text |-> Trim(Substring(cleanLine, 2, Len(cleanLine)))]>>
    ELSE <<[kind |-> "Paragraph", text |-> cleanLine]>>

RECURSIVE Concat(_)
\* the elements that .filter(Boolean) keeps, in order
Concat(seqs) == IF seqs = <<>> THEN <<>> ELSE Head(seqs) \o Concat(Tail(seqs))

\* text.split('\n').map(...).filter(Boolean)
formatAnalysis(report) ==
    LET lines == Split(report, "\n")
    IN Concat([i \in 1..Len(lines) |-> FormatLine(lines[i])])

\* ----------------------------------------------------------------- Init

InitCtl ==
    /\ image = Null
    /\ analysis = ""
    /\ loading = FALSE
    /\ error = Null
    /\ mountPc = "init"
    /\ readers = {}
    /\ calls = {}
    /\ resolved = <<>>
    /\ nFlows = 0
    /\ nCalls = 0
    /\ last = [op |-> "init", file |-> NoFile, call |-> NoCall, failure |-> NoFailure, log |-> <<>>]

InitFmtIdle ==
    /\ text = ""
    /\ blocks = <<>>
    /\ fmtPc = "idle"

Init == InitCtl /\ InitFmtIdle

\* -------------------------------------------------------------- actions

\* useEffect: loadDefaultContent starts, up to await fetch(DEFAULT_IMAGE)
Mount ==
    /\ mountPc = "init"
    /\ mountPc' = "fetching"
    /\ Commit(setLoading(Cur, TRUE), "mount", NoFile, NoCall, NoFailure)
    /\ UNCHANGED <<readers, resolved, nFlows, fmtVars>>

\* fetch and response.blob() succeeded: the reader starts
DefaultFetchOk ==
    /\ mountPc = "fetching"
    /\ mountPc' = "reading"
    /\ Commit(Cur, "defaultFetched", NoFile, NoCall, NoFailure)
    /\ UNCHANGED <<readers, resolved, nFlows, fmtVars>>

\* fetch threw, the response was not ok or response.blob() threw
DefaultFetchFail ==
    /\ mountPc = "fetching"
    /\ mountPc' = "done"
    /\ Commit(defaultCatch(Cur), "defaultFetchFailed", NoFile, NoCall, NoFailure)
    /\ UNCHANGED <<readers, resolved, nFlows, fmtVars>>

\* the reader of the default image finished
DefaultReaderDone ==
    /\ mountPc = "reading"
    /\ mountPc' = "done"
    /\ \E ok \in BOOLEAN :
          Commit(defaultReaderEvents(Cur, DefaultBlob, ok),
                 IF ok THEN "defaultLoaded" ELSE "defaultReadFailed",
                 NoFile, NoCall, NoFailure)
    /\ UNCHANGED <<readers, resolved, nFlows, fmtVars>>

\* onChange of the file input: handleImageUpload
HandleImageUpload ==
    /\ mountPc # "init"
    /\ \E file \in Files \cup {NoFile} :
          /\ startsReader(file) => nFlows < MaxFlows
          /\ Commit(handleImageUpload(Cur, file), "select", file, NoCall, NoFailure)
          /\ IF startsReader(file)
                THEN /\ readers' = readers \cup {[id |-> nFlows + 1, file |-> file]}
                     /\ nFlows' = nFlows + 1
                ELSE UNCHANGED <<readers, nFlows>>
    /\ UNCHANGED <<mountPc, resolved, fmtVars>>

\* a FileReader of handleImageUpload finished
UploadReaderDone ==
    /\ \E r \in readers, ok \in BOOLEAN :
          /\ readers' = readers \ {r}
          /\ Commit(uploadReaderEvents(Cur, r.file, ok),
                    IF ok THEN "uploadLoaded" ELSE "uploadReadFailed",
                    r.file, [id |-> nCalls + 1, imageData |-> ReaderResult(r.file, ok)],
                    NoFailure)
    /\ UNCHANGED <<mountPc, resolved, nFlows, fmtVars>>

\* the button without its disabled attribute
ClickIdentifyWhileLoading ==
    /\ mountPc # "init"
    /\ image # Null
    /\ nFlows < MaxFlows
    /\ nFlows' = nFlows + 1
    /\ Commit(handleAnalyze(Cur, image), "identify", NoFile,
              [id |-> nCalls + 1, imageData |-> image], NoFailure)
    /\ UNCHANGED <<mountPc, readers, resolved, fmtVars>>

\* onClick of the Identify button: rendered when image is set, disabled while loading
ClickIdentify ==
    /\ mountPc # "init"
    /\ image # Null
    /\ ~loading
    /\ nFlows < MaxFlows
    /\ nFlows' = nFlows + 1
    /\ Commit(handleAnalyze(Cur, image), "identify", NoFile,
              [id |-> nCalls + 1, imageData |-> image], NoFailure)
    /\ UNCHANGED <<mountPc, readers, resolved, fmtVars>>

\* analyzeImage resolved with the report
AnalyzeResolved ==
    /\ \E c \in calls :
          /\ resolved' = Append(resolved, c)
          /\ Commit(handleAnalyzeResolved([Cur EXCEPT !.calls = @ \ {c}],
                                          ReportFor(c.imageData)),
                    "analyzed", NoFile, c, NoFailure)
    /\ UNCHANGED <<mountPc, readers, nFlows, fmtVars>>

\* analyzeImage rejected
AnalyzeRejected ==
    /\ \E c \in calls, err \in Failures :
          /\ resolved' = Append(resolved, c)
          /\ Commit(handleAnalyzeRejected([Cur EXCEPT !.calls = @ \ {c}], err),
                    "analyzeFailed", NoFile, c, err)
    /\ UNCHANGED <<mountPc, readers, nFlows, fmtVars>>

Next ==
    \/ Mount
    \/ DefaultFetchOk
    \/ DefaultFetchFail
    \/ DefaultReaderDone
    \/ HandleImageUpload
    \/ UploadReaderDone
    \/ ClickIdentify
    \/ AnalyzeResolved
    \/ AnalyzeRejected

Spec == Init /\ [][Next]_vars

\* ------------------------------------------- the formatter on its own

\* the characters the report texts are drawn from
Alphabet == {"1", ".", "-", ":", " ", "a", "*", "\n"}

RECURSIVE TextsOfLen(_)
TextsOfLen(n) ==
    IF n = 0 THEN {""} ELSE {t \o c : t \in TextsOfLen(n - 1), c \in Alphabet}

\* report lines of the shapes the service is prompted for
SampleTexts ==
    { "1. Species Identification:",
      "- Scientific name: Quercus rubra",
      "- Acorns provide food",
      "## 2. Physical Characteristics",
      "- **Size**: Large (60-75 feet tall)",
      "- Note: ratio 1:2",
      "1. Size:\n\n- Height: 60-75 feet: tall\n  \n- *shade*\nA tall tree.",
      DEFAULT_ANALYSIS }

Texts == UNION {TextsOfLen(n) : n \in 0..MaxLen} \cup SampleTexts

InitFmt ==
    /\ InitCtl
    /\ text \in Texts
    /\ blocks = <<>>
    /\ fmtPc = "idle"

\* {analysis && formatAnalysis(analysis)}: the report is rendered
Format ==
    /\ fmtPc = "idle"
    /\ fmtPc' = "done"
    /\ blocks' = formatAnalysis(text)
    /\ UNCHANGED <<text, ctlVars>>

NextFmt == Format

SpecFmt == InitFmt /\ [][NextFmt]_vars

\* ----------------------------------------------------------- properties

TypeOK ==
    /\ loading \in BOOLEAN
    /\ mountPc \in {"init", "fetching", "reading", "done"}
    /\ nFlows \in 0..MaxFlows
    /\ nCalls \in 0..MaxFlows
    /\ Cardinality(calls) <= nCalls

\* a file was chosen in the selection that just happened
Selected == last.op = "select" /\ last.file # NoFile

\* the selection that just happened started a FileReader on its file
ReaderStarted == \E r \in readers : r.id = nFlows /\ r.file = last.file

\* the declared type begins with the image category
DeclaredImage(file) == Len(file.type) >= 6 /\ SubSeq(file.type, 1, 6) = "image/"

TwentyMiB == 20971520

\* C1: a selection of a file whose declared type does not start with image/ sets
\* the wrong-type message, leaves image and analysis as they were and issues no
\* Analysis Client call, from whatever state.
C1_WrongTypeRejected ==
    [][(last'.op = "select" /\ last'.file # NoFile /\ ~DeclaredImage(last'.file))
         => /\ error' = MsgWrongType
            /\ image' = image
            /\ analysis' = analysis
            /\ calls' = calls
            /\ nCalls' = nCalls
            /\ readers' = readers]_vars

\* C1 witness: a wrong-type file is rejected while an image is shown and a call
\* is in flight.
C1_Witness ==
    /\ Selected
    /\ ~DeclaredImage(last.file)
    /\ error = MsgWrongType
    /\ image # Null
    /\ calls # {}

\* C2 as stated: every file of at least 20 MiB + 1 byte fails with the oversize
\* message, and an image file of 20 MiB or less is not rejected for size.
C2_Original ==
    Selected =>
        /\ last.file.size >= TwentyMiB + 1 =>
              error = MsgTooLarge /\ MsgTooLarge # MsgWrongType /\ ~ReaderStarted
        /\ (DeclaredImage(last.file) /\ last.file.size <= TwentyMiB) => ReaderStarted

\* C2 amended: an image-typed file of at least 20 MiB + 1 byte fails with the
\* oversize message, a file of that size of another type fails with the wrong-type
\* message, and an image file of 20 MiB or less is not rejected for size.
C2_OversizeRejected ==
    Selected =>
        /\ (DeclaredImage(last.file) /\ last.file.size >= TwentyMiB + 1) =>
              error = MsgTooLarge /\ MsgTooLarge # MsgWrongType /\ ~ReaderStarted
        /\ (~DeclaredImage(last.file) /\ last.file.size >= TwentyMiB + 1) =>
              error = MsgWrongType /\ ~ReaderStarted
        /\ (DeclaredImage(last.file) /\ last.file.size <= TwentyMiB) => ReaderStarted

\* C2 witness: an image file of 20 MiB + 1 byte was just rejected as oversize.
C2_Witness ==
    /\ Selected
    /\ DeclaredImage(last.file)
    /\ last.file.size = TwentyMiB + 1
    /\ error = MsgTooLarge
    /\ ~ReaderStarted

\* the positions of a setter in the log of the handler that just ran
LogAt(name) == {i \in 1..Len(last.log) : last.log[i] = name}

\* every a comes before every b in the log
Before(a, b) == \A i \in LogAt(a), j \in LogAt(b) : i < j

\* C3: when the conversion of a validated file succeeds, image is the new encoded
\* image, error is clear, loading is true and the Analysis Client is invoked
\* exactly once, with that image, after image, error and loading were set.
C3_UploadStartsAnalysis ==
    last.op = "uploadLoaded" =>
        /\ image = ReadAsDataURL(last.file)
        /\ error = Null
        /\ loading
        /\ Cardinality(LogAt("analyzeImage")) = 1
        /\ [id |-> nCalls, imageData |-> image] \in calls
        /\ last.call = [id |-> nCalls, imageData |-> image]
        /\ LogAt("setImage") # {} /\ LogAt("setError") # {} /\ LogAt("setLoading") # {}
        /\ \E i \in LogAt("setImage"), j \in LogAt("setError"), k \in LogAt("setLoading") :
              i < j /\ j < k
        /\ Before("setImage", "analyzeImage")
        /\ Before("setError", "analyzeImage")
        /\ Before("setLoading", "analyzeImage")

\* C3 witness: after the default content was shown, an upload's conversion
\* succeeded: its image replaced the default one and its call is in flight.
C3_Witness ==
    /\ last.op = "uploadLoaded"
    /\ mountPc = "done"
    /\ analysis = DEFAULT_ANALYSIS
    /\ image = "data:image/png;base64,QQ=="
    /\ loading
    /\ error = Null
    /\ calls = {[id |-> 1, imageData |-> "data:image/png;base64,QQ=="]}

\* the failure carries a message
CarriesMessage(err) == err.isError /\ err.message # ""

\* C4 as stated: after a failed call loading is false, error is the failure's
\* message or the fallback when it carries none, never absent or empty, and the
\* image shown when the call started is still set.
C4_FailureShown ==
    last.op = "analyzeFailed" =>
        /\ ~loading
        /\ error = IF CarriesMessage(last.failure) THEN last.failure.message
                   ELSE MsgAnalyzeFallback
        /\ error # Null
        /\ error # ""
        /\ image = last.call.imageData

\* C5 as stated: loading and error are never set together.
C5_LoadingExcludesError == ~(loading /\ error # Null)

\* C6: no in-flight call is cancelled: a call leaves flight only by resolving, and
\* its response is then written (the report, or the error) and loading reset,
\* whatever newer call was started meanwhile.
C6_NoCancellation ==
    [][\A c \in calls :
          \/ c \in calls'
          \/ /\ last'.call = c
             /\ resolved' = Append(resolved, c)
             /\ ~loading'
             /\ \/ last'.op = "analyzed" /\ analysis' = ReportFor(c.imageData)
                \/ last'.op = "analyzeFailed" /\ error' = ErrorMessage(last'.failure)]_vars

\* C6 witness: call A for image 1, call B for image 2 started before A resolved, B
\* resolved first, then A's response overwrote the report: image 2 is shown with
\* the report of image 1.
C6_Witness ==
    /\ Len(resolved) = 2
    /\ resolved[1].id > resolved[2].id
    /\ resolved[1].imageData # resolved[2].imageData
    /\ last.op = "analyzed"
    /\ last.call = resolved[2]
    /\ image = resolved[1].imageData
    /\ analysis = ReportFor(resolved[2].imageData)
    /\ ~loading

\* C7 as stated: when the conversion of a validated file reports an error, the
\* read-failure message is set, image is unchanged and no call is issued.
C7_ReadErrorStops ==
    [][last'.op = "uploadReadFailed"
         => /\ error' = MsgReadFailed
            /\ image' = image
            /\ calls' = calls
            /\ nCalls' = nCalls]_vars

\* C8 as stated: mount enters Loading; a successful default load leaves the default
\* image and the default analysis with loading false; a failed one leaves the
\* load-failure error with loading false and neither default set.
C8_DefaultLoad ==
    /\ last.op = "mount" => loading
    /\ last.op = "defaultLoaded" =>
          /\ image = ReadAsDataURL(DefaultBlob)
          /\ analysis = DEFAULT_ANALYSIS
          /\ ~loading
    /\ last.op \in {"defaultFetchFailed", "defaultReadFailed"} =>
          /\ error = MsgLoadDefault
          /\ ~loading
          /\ image # ReadAsDataURL(DefaultBlob)
          /\ analysis # DEFAULT_ANALYSIS

\* the positions of the newlines of t, and the two ends
Cuts(t) == {0, Len(t) + 1} \cup {i \in 1..Len(t) : SubSeq(t, i, i) = "\n"}

\* the k-th line of t: what lies between the k-th and the next cut
LineOf(t, k) ==
    LET lo == CHOOSE c \in Cuts(t) : Cardinality({d \in Cuts(t) : d < c}) = k - 1
        hi == CHOOSE c \in Cuts(t) : Cardinality({d \in Cuts(t) : d < c}) = k
    IN IF lo + 1 > hi - 1 THEN "" ELSE SubSeq(t, lo + 1, hi - 1)

RECURSIVE Kept(_, _, _)
\* the characters of s at the positions lo..hi that are no markdown characters
Kept(s, lo, hi) ==
    IF lo > hi THEN ""
    ELSE (IF SubSeq(s, lo, lo) \in {"*", "_", "#"} THEN "" ELSE SubSeq(s, lo, lo))
         \o Kept(s, lo + 1, hi)

\* s without the white space around it
Trimmed(s) ==
    LET ink == {i \in 1..Len(s) : SubSeq(s, i, i) \notin {" ", "\t", "\r"}}
    IN IF ink = {} THEN ""
       ELSE SubSeq(s, CHOOSE i \in ink : \A j \in ink : i <= j,
                      CHOOSE i \in ink : \A j \in ink : i >= j)

\* a line with the markdown characters stripped, trimmed
Cleaned(line) == Trimmed(Kept(line, 1, Len(line)))

\* the lengths n such that c begins with n digits and a dot
NumericPrefixes(c) ==
    {n \in 1..(Len(c) - 1) :
        /\ \A i \in 1..n : SubSeq(c, i, i) \in {"0", "1", "2", "3", "4", "5", "6", "7", "8", "9"}
        /\ SubSeq(c, n + 1, n + 1) = "."}

\* what follows position i of c, trimmed
After(c, i) == IF i >= Len(c) THEN "" ELSE Trimmed(SubSeq(c, i + 1, Len(c)))

\* the positions of the colons of c
Colons(c) == {i \in 1..Len(c) : SubSeq(c, i, i) = ":"}

\* the block the rules give for a cleaned, non-empty line
BlockFor(c) ==
    IF NumericPrefixes(c) # {}
        THEN [kind |-> "Heading",
              text |-> After(c, 1 + CHOOSE n \in NumericPrefixes(c) : TRUE)]
    ELSE IF SubSeq(c, 1, 1) = "-" /\ Colons(c) # {}
        THEN LET k == CHOOSE i \in Colons(c) : \A j \in Colons(c) : i <= j
             IN [kind |-> "LabeledField",
                 label |-> IF k = 2 THEN "" ELSE Trimmed(SubSeq(c, 2, k - 1)),
                 value |-> After(c, k)]
    ELSE IF SubSeq(c, 1, 1) = "-"
        THEN [kind |-> "BulletItem", text |-> After(c, 1)]
    ELSE [kind |-> "Paragraph", text |-> c]

\* the lines of t in order, cleaned, the empty ones dropped, each as its block
ExpectedBlocks(t) ==
    LET n == Cardinality(Cuts(t)) - 1
        cleaned == [k \in 1..n |-> Cleaned(LineOf(t, k))]
        nonEmpty(c) == c # ""
        kept == SelectSeq(cleaned, nonEmpty)
    IN [i \in 1..Len(kept) |-> BlockFor(kept[i])]

\* C9: formatAnalysis returns the report's lines in input order, each stripped of
\* the markdown characters and trimmed, the empty ones dropped, each mapped by the
\* first matching rule to a Heading, LabeledField, BulletItem or Paragraph.
C9_FormatRules ==
    fmtPc = "done" =>
        /\ blocks = ExpectedBlocks(text)
        /\ text = "1. Species Identification:" =>
              blocks = <<[kind |-> "Heading", text |-> "Species Identification:"]>>
        /\ text = "- Scientific name: Quercus rubra" =>
              blocks = <<[kind |-> "LabeledField", label |-> "Scientific name",
                          value |-> "Quercus rubra"]>>
        /\ text = "- Acorns provide food" =>
              blocks = <<[kind |-> "BulletItem", text |-> "Acorns provide food"]>>
        /\ text \in {"", " ", "\n"} => blocks = <<>>

\* C9 witness: a report with a heading, a field with a later colon, a bullet and a
\* paragraph around blank lines was formatted into these four blocks.
C9_Witness ==
    /\ fmtPc = "done"
    /\ text = "1. Size:\n\n- Height: 60-75 feet: tall\n  \n- *shade*\nA tall tree."
    /\ blocks = << [kind |-> "Heading", text |-> "Size:"],
                   [kind |-> "LabeledField", label |-> "Height", value |-> "60-75 feet: tall"],
                   [kind |-> "BulletItem", text |-> "shade"],
                   [kind |-> "Paragraph", text |-> "A tall tree."] >>

\* C10 as stated: while an Analysis Client call is in flight, loading is true.
C10_Original == calls # {} => loading

\* C10 amended: the Identify button never starts a call while loading is true,
\* loading is true right after every call starts, and loading becomes false while
\* a call is unresolved only when another call or the default load completes.
C10_LoadingWhileInFlight ==
    [][/\ last'.op = "identify" => ~loading
       /\ nCalls' > nCalls => loading'
       /\ (loading /\ ~loading' /\ calls' # {}) =>
             last'.op \in {"analyzed", "analyzeFailed", "defaultLoaded",
                           "defaultReadFailed", "defaultFetchFailed"}]_vars

\* C10 witness: the button started a call while an older call was still in flight.
C10_Witness ==
    /\ last.op = "identify"
    /\ loading
    /\ Cardinality(calls) = 2

\* ------------------------------------------------------------- liveness

\* the effect runs after the first render
FetchSettles == DefaultFetchOk \/ DefaultFetchFail

\* an analyzeImage call settles one way or the other
AnalyzeSettles == AnalyzeResolved \/ AnalyzeRejected

\* every asynchronous operation that was started eventually completes; the user
\* stops after MaxFlows flows
SpecLive ==
    /\ Init
    /\ [][Next]_vars
    /\ WF_vars(Mount)
    /\ WF_vars(FetchSettles)
    /\ WF_vars(DefaultReaderDone)
    /\ WF_vars(UploadReaderDone)
    /\ WF_vars(AnalyzeSettles)

\* an operation that ends by setLoading(false) is in flight
LoadingOpInFlight == mountPc \in {"fetching", "reading"} \/ calls # {}

\* C11: when every asynchronous operation eventually completes and the user
\* eventually stops, the controller eventually reaches and stays in a state with
\* loading false, and it is never in Loading with nothing in flight.
C11_SettlesNotLoading ==
    /\ <>[](~loading)
    /\ [](loading => LoadingOpInFlight)

\* C11 witness: the default load, an upload and two analysis calls all completed
\* and the controller is at rest with loading false.
C11_Witness ==
    /\ mountPc = "done"
    /\ readers = {}
    /\ calls = {}
    /\ Len(resolved) = 2
    /\ ~loading

====
